---- MODULE Spec2Model ----
(***************************************************************************)
(* The news collector of src/뉴스기사수집.py: link and title normalisation, *)
(* the time-marker filter, get_html's retry loop, fetch_news's marker loop *)
(* with its dedup sets, and the batch loop that calls fetch_news per query. *)
(*                                                                         *)
(* A Python str is a sequence of one-character strings, so that parsing,   *)
(* re-encoding and case folding are computed character by character.       *)
(***************************************************************************)
EXTENDS Integers, Sequences, FiniteSets, TLC

----------------------------------------------------------------------------
(* Characters and the str methods the code uses *)

\* the printable ASCII characters in code-point order, space (32) to tilde (126);
\* the double quote, the backslash and the backtick, which no input holds, are
\* spelled out to keep their places in the table
ASCII == <<" ","!","DQUOTE","#","$","%","&","'","(",")","*","+",",","-",".","/","0","1","2","3","4","5","6","7","8","9",":",";","<","=",">","?","@","A","B","C","D","E","F","G","H","I","J","K","L","M","N","O","P","Q","R","S","T","U","V","W","X","Y","Z","[","BACKSLASH","]","^","_","BACKTICK","a","b","c","d","e","f","g","h","i","j","k","l","m","n","o","p","q","r","s","t","u","v","w","x","y","z","{","|","}","~">>

Range(s) == {s[i] : i \in 1..Len(s)}

\* ord(c) of an ASCII character
Ord == [c \in Range(ASCII) |-> 31 + (CHOOSE i \in 1..Len(ASCII) : ASCII[i] = c)]

IsAscii(c) == c \in DOMAIN Ord
IsUpper(c) == IsAscii(c) /\ Ord[c] \in 65..90
IsAlpha(c) == IsAscii(c) /\ (Ord[c] \in 65..90 \/ Ord[c] \in 97..122)
IsDigit(c) == IsAscii(c) /\ Ord[c] \in 48..57

\* str.lower() / str.casefold(), one character (letters outside ASCII have no case here)
LowerChar(c) == IF IsUpper(c) THEN ASCII[Ord[c] + 1] ELSE c

Lower(s) == [i \in 1..Len(s) |-> LowerChar(s[i])]

\* str.find(c, start): the first index >= start holding c, 0 when there is none
Find(s, c, start) ==
  LET hits == {i \in start..Len(s) : s[i] = c}
  IN  IF hits = {} THEN 0 ELSE CHOOSE i \in hits : \A j \in hits : i <= j

Contains(s, c) == Find(s, c, 1) # 0

StartsWith(s, pre) == Len(s) >= Len(pre) /\ SubSeq(s, 1, Len(pre)) = pre

EndsWith(s, suf) == Len(s) >= Len(suf) /\ SubSeq(s, Len(s) - Len(suf) + 1, Len(s)) = suf

\* str.rstrip(c)
RECURSIVE RStrip(_, _)
RStrip(s, c) ==
  IF s # <<>> /\ s[Len(s)] = c THEN RStrip(SubSeq(s, 1, Len(s) - 1), c) ELSE s

\* str.split(c): the pieces between the occurrences of c (always at least one piece)
RECURSIVE Split(_, _)
Split(s, c) ==
  LET i == Find(s, c, 1)
  IN  IF i = 0 THEN <<s>>
      ELSE <<SubSeq(s, 1, i - 1)>> \o Split(SubSeq(s, i + 1, Len(s)), c)

\* sep.join(parts)
RECURSIVE Join(_, _)
Join(parts, sep) ==
  IF parts = <<>> THEN <<>>
  ELSE IF Len(parts) = 1 THEN parts[1]
  ELSE parts[1] \o sep \o Join(Tail(parts), sep)

\* s < t in Python's str order (by code point, a proper prefix first)
RECURSIVE StrLess(_, _)
StrLess(s, t) ==
  IF t = <<>> THEN FALSE
  ELSE IF s = <<>> THEN TRUE
  ELSE IF s[1] = t[1] THEN StrLess(Tail(s), Tail(t))
  ELSE Ord[s[1]] < Ord[t[1]]

\* sorted(v) for a list of str (insertion into the sorted tail; ties keep their order)
RECURSIVE Sorted(_)
Sorted(v) ==
  IF v = <<>> THEN <<>>
  ELSE LET rest == Sorted(Tail(v))
           k == Cardinality({i \in 1..Len(rest) : StrLess(rest[i], v[1])})
       IN  SubSeq(rest, 1, k) \o <<v[1]>> \o SubSeq(rest, k + 1, Len(rest))

----------------------------------------------------------------------------
(* urllib.parse as normalize_link calls it *)

HEXDIGITS == <<"0","1","2","3","4","5","6","7","8","9","A","B","C","D","E","F">>

UpperChar(c) == IF IsAscii(c) /\ Ord[c] \in 97..122 THEN ASCII[Ord[c] - 63] ELSE c

IsHex(c) == UpperChar(c) \in Range(HEXDIGITS)

HexVal(c) == (CHOOSE i \in 1..16 : HEXDIGITS[i] = UpperChar(c)) - 1

\* unquote(): %XX becomes the character with that code; an escape that is not
\* two hex digits, or names no printable ASCII character, is left as it stands
RECURSIVE unquote(_)
unquote(s) ==
  IF s = <<>> THEN <<>>
  ELSE IF s[1] = "%" /\ Len(s) >= 3 /\ IsHex(s[2]) /\ IsHex(s[3])
          /\ 16 * HexVal(s[2]) + HexVal(s[3]) \in 32..126
       THEN <<ASCII[16 * HexVal(s[2]) + HexVal(s[3]) - 31]>> \o unquote(SubSeq(s, 4, Len(s)))
       ELSE <<s[1]>> \o unquote(Tail(s))

\* the name.replace('+', ' ') of parse_qsl
PlusToSpace(s) == [i \in 1..Len(s) |-> IF s[i] = "+" THEN " " ELSE s[i]]

\* quote_plus(), one character: unreserved characters stay, a space becomes "+",
\* anything else becomes %XX in upper-case hex
quote_plus_char(c) ==
  IF IsAlpha(c) \/ IsDigit(c) \/ c \in {"_", ".", "-", "~"} THEN <<c>>
  ELSE IF c = " " THEN <<"+">>
  ELSE <<"%", HEXDIGITS[(Ord[c] \div 16) + 1], HEXDIGITS[(Ord[c] % 16) + 1]>>

RECURSIVE quote_plus(_)
quote_plus(s) ==
  IF s = <<>> THEN <<>> ELSE quote_plus_char(s[1]) \o quote_plus(Tail(s))

\* the part of s before index i, all of s when i = 0 (the separator was not found)
Before(s, i) == IF i = 0 THEN s ELSE SubSeq(s, 1, i - 1)

\* the part of s after index i, nothing when i = 0
After(s, i) == IF i = 0 THEN <<>> ELSE SubSeq(s, i + 1, Len(s))

\* name_value.split('=', 1): the name, and the value ('' when there is no '=')
RawName(nv) == Before(nv, Find(nv, "=", 1))

RawValue(nv) == After(nv, Find(nv, "=", 1))

\* the pieces parse_qsl goes on with: the empty ones are skipped, and so are those
\* with an empty value unless keep_blank_values
QslKept(pieces, keep_blank_values) ==
  SelectSeq(pieces, LAMBDA nv : nv # <<>> /\ (IF keep_blank_values THEN TRUE ELSE RawValue(nv) # <<>>))

QslPairs(kept) ==
  [i \in 1..Len(kept) |->
     <<unquote(PlusToSpace(RawName(kept[i]))), unquote(PlusToSpace(RawValue(kept[i])))>>]

\* parse_qsl(qs, keep_blank_values): the (name, value) pairs of a query string
parse_qsl(qs, keep_blank_values) == QslPairs(QslKept(Split(qs, "&"), keep_blank_values))

\* the names of a pair list, each once, in order of first appearance (dict order)
RECURSIVE DictKeys(_)
DictKeys(pairs) ==
  IF pairs = <<>> THEN <<>>
  ELSE IF pairs[Len(pairs)][1] \in Range(DictKeys(SubSeq(pairs, 1, Len(pairs) - 1)))
       THEN DictKeys(SubSeq(pairs, 1, Len(pairs) - 1))
       ELSE Append(DictKeys(SubSeq(pairs, 1, Len(pairs) - 1)), pairs[Len(pairs)][1])

Seconds(pairs) == [i \in 1..Len(pairs) |-> pairs[i][2]]

\* the values a pair list gives a name, in order
ValuesOf(pairs, name) == Seconds(SelectSeq(pairs, LAMBDA nv : nv[1] = name))

DictItems(pairs, keys) == [i \in 1..Len(keys) |-> <<keys[i], ValuesOf(pairs, keys[i])>>]

\* parse_qs(): a dict as the sequence of its items <<name, list of values>>
parse_qs(qs, keep_blank_values) ==
  DictItems(parse_qsl(qs, keep_blank_values), DictKeys(parse_qsl(qs, keep_blank_values)))

\* urlencode: the name=value pieces of one item
EncodeItem(item) ==
  Join([j \in 1..Len(item[2]) |->
          quote_plus(item[1]) \o <<"=">> \o quote_plus(item[2][j])], <<"&">>)

\* urlencode(d, doseq=True) of a dict of non-empty lists
urlencode(items) == Join([i \in 1..Len(items) |-> EncodeItem(items[i])], <<"&">>)

https == <<"h","t","t","p","s">>

\* the members of urllib.parse.uses_netloc that an input here can name
uses_netloc == {<<>>, <<"f","t","p">>, <<"h","t","t","p">>, https}

IsSchemeChar(c) == IsAlpha(c) \/ IsDigit(c) \/ c \in {"+", "-", "."}

\* urlsplit: the index of the ':' that ends a scheme, 0 when url has no scheme
SchemeEnd(url, i) ==
  IF i > 1 /\ IsAlpha(url[1]) /\ \A j \in 1..(i - 1) : IsSchemeChar(url[j]) THEN i ELSE 0

\* _splitnetloc(url, 2): the index of the first of '/?#' from the third character
\* on, len + 1 when there is none
NetlocEnd(u) ==
  IF \E k \in 3..Len(u) : u[k] \in {"/", "?", "#"}
  THEN CHOOSE k \in 3..Len(u) : /\ u[k] \in {"/", "?", "#"}
                                /\ \A m \in 3..(k - 1) : u[m] \notin {"/", "?", "#"}
  ELSE Len(u) + 1

\* urlsplit, last step: the '?' splits path and query; err is the ValueError
\* ("Invalid IPv6 URL") of a netloc with one bracket but not the other
UrlSplit4(scheme, netloc, u, fragment) ==
  [err |-> Contains(netloc, "[") # Contains(netloc, "]"),
   scheme |-> scheme, netloc |-> netloc,
   path |-> Before(u, Find(u, "?", 1)), query |-> After(u, Find(u, "?", 1)),
   fragment |-> fragment]

\* urlsplit: the first '#' splits off the fragment
UrlSplit3(scheme, netloc, u) ==
  UrlSplit4(scheme, netloc, Before(u, Find(u, "#", 1)), After(u, Find(u, "#", 1)))

\* urlsplit: a leading "//" starts the netloc, which ends at d
UrlSplit2(scheme, u, d) ==
  IF StartsWith(u, <<"/", "/">>)
  THEN UrlSplit3(scheme, SubSeq(u, 3, d - 1), SubSeq(u, d, Len(u)))
  ELSE UrlSplit3(scheme, <<>>, u)

\* urlsplit: the scheme, lower-cased, ends at i (there is none when i = 0)
UrlSplit1(url, i) ==
  IF i = 0 THEN UrlSplit2(<<>>, url, NetlocEnd(url))
  ELSE UrlSplit2(Lower(SubSeq(url, 1, i - 1)), SubSeq(url, i + 1, Len(url)),
                 NetlocEnd(SubSeq(url, i + 1, Len(url))))

\* urlparse(url): scheme, netloc, path, query, fragment.
\* The inputs hold no ';', so the params component is always empty.
urlparse(url) == UrlSplit1(url, SchemeEnd(url, Find(url, ":", 1)))

\* urlunsplit: "//" + netloc goes before the path when there is a netloc, or the
\* scheme uses one and the path does not start with "//"
WithNetloc(scheme, netloc, path) ==
  IF netloc # <<>> \/ (scheme # <<>> /\ scheme \in uses_netloc /\ ~StartsWith(path, <<"/", "/">>))
  THEN <<"/", "/">> \o netloc \o (IF path # <<>> /\ path[1] # "/" THEN <<"/">> \o path ELSE path)
  ELSE path

\* urlunparse((scheme, netloc, path, "", query, ""))
urlunparse(scheme, netloc, path, query) ==
  (IF scheme # <<>> THEN scheme \o <<":">> ELSE <<>>)
  \o WithNetloc(scheme, netloc, path)
  \o (IF query # <<>> THEN <<"?">> \o query ELSE <<>>)

----------------------------------------------------------------------------
(* normalize_link and normalize_title *)

TRACKING_PARAMS == {
  <<"u","t","m","_","s","o","u","r","c","e">>,
  <<"u","t","m","_","m","e","d","i","u","m">>,
  <<"u","t","m","_","c","a","m","p","a","i","g","n">>,
  <<"u","t","m","_","t","e","r","m">>,
  <<"u","t","m","_","c","o","n","t","e","n","t">>,
  <<"u","t","m","_","n","a","m","e">>,
  <<"g","c","l","i","d">>,
  <<"f","b","c","l","i","d">>,
  <<"i","g","s","h","i","d">>,
  <<"u","t","m","_","i","d">>,
  <<"u","t","m","_","r","e","f","e","r","r","e","r">>,
  <<"r","e","f">>,
  <<"s","n","s">>,
  <<"s","p","m">>,
  <<"c","m","p","i","d">>}

\* the aggregator domain of the netloc.endswith(...) test
NAVER_DOMAIN == <<"n","e","w","s",".","n","a","v","e","r",".","c","o","m">>

OID == <<"o","i","d">>
AID == <<"a","i","d">>

\* qs.get(name, [None])[0]: <<>> for None, else <<the first value>>
QsGetFirst(qs, name) ==
  IF \E k \in 1..Len(qs) : qs[k][1] = name
  THEN <<qs[CHOOSE k \in 1..Len(qs) : qs[k][1] = name][2][1]>>
  ELSE <<>>

\* "if oid and aid": neither None nor ''
Truthy(opt) == IF opt = <<>> THEN FALSE ELSE opt[1] # <<>>

\* the aggregator branch once oid and aid are looked up
NaverLink(netloc, path, oid, aid) ==
  IF Truthy(oid) /\ Truthy(aid)
  THEN <<"n","a","v","e","r",":","o","i","d","=">> \o oid[1] \o <<"&","a","i","d","=">> \o aid[1]
  ELSE netloc \o RStrip(path, "/")

\* QsClean that filters nothing out
QsClean_keep_all(qs) == [i \in 1..Len(qs) |-> <<qs[i][1], Sorted(qs[i][2])>>]

\* qs_clean: the items whose name is not a tracking parameter, their values sorted
QsClean(qs) ==
  [i \in 1..Len(SelectSeq(qs, LAMBDA item : item[1] \notin TRACKING_PARAMS)) |->
     <<SelectSeq(qs, LAMBDA item : item[1] \notin TRACKING_PARAMS)[i][1],
       Sorted(SelectSeq(qs, LAMBDA item : item[1] \notin TRACKING_PARAMS)[i][2])>>]

\* new_path = p.path.rstrip("/") or "/"
NewPath(stripped) == IF stripped = <<>> THEN <<"/">> ELSE stripped

\* the body of the try block once the URL is parsed
NormalizeParsed(url, p) ==
  IF p.err THEN url
  ELSE IF EndsWith(Lower(p.netloc), NAVER_DOMAIN)
  THEN NaverLink(Lower(p.netloc), p.path,
                 QsGetFirst(parse_qs(p.query, FALSE), OID),
                 QsGetFirst(parse_qs(p.query, FALSE), AID))
  ELSE urlunparse(IF p.scheme = <<>> THEN https ELSE Lower(p.scheme),
                  Lower(p.netloc),
                  NewPath(RStrip(p.path, "/")),
                  urlencode(QsClean(parse_qs(p.query, TRUE))))

normalize_link(url) == IF url = <<>> THEN <<>> ELSE NormalizeParsed(url, urlparse(url))

----------------------------------------------------------------------------
(* Text: whitespace, normalize_title, the time-marker filter *)

\* Hangul syllables are written by name, one str per character:
\* "BUN" 분, "SI" 시, "GAN" 간, "JEON" 전, "EO" 어, "JE" 제; "TAB" is the tab character
IsSpace(c) == c \in {" ", "TAB"}

RECURSIVE LStripSpace(_)
LStripSpace(s) == IF s # <<>> /\ IsSpace(s[1]) THEN LStripSpace(Tail(s)) ELSE s

RECURSIVE RStripSpace(_)
RStripSpace(s) ==
  IF s # <<>> /\ IsSpace(s[Len(s)]) THEN RStripSpace(SubSeq(s, 1, Len(s) - 1)) ELSE s

\* str.strip()
Strip(s) == LStripSpace(RStripSpace(s))

\* str.split(): the maximal runs of non-whitespace characters
RECURSIVE Words(_)
Words(s) ==
  LET t == LStripSpace(s)
      ends == {i \in 1..Len(t) : IsSpace(t[i])}
      n == IF ends = {} THEN Len(t) ELSE (CHOOSE i \in ends : \A j \in ends : i <= j) - 1
  IN  IF t = <<>> THEN <<>>
      ELSE <<SubSeq(t, 1, n)>> \o Words(SubSeq(t, n + 1, Len(t)))

normalize_title(t) == Join(Words(Lower(t)), <<" ">>)

\* ([1-9]|[1-5][0-9]) of the minutes pattern
MinuteNumber(d) ==
  \/ Len(d) = 1 /\ IsDigit(d[1]) /\ d[1] # "0"
  \/ Len(d) = 2 /\ d[1] \in {"1", "2", "3", "4", "5"} /\ IsDigit(d[2])

\* HourNumber that lets 24 through
HourNumber_to24(d) ==
  \/ Len(d) = 1 /\ IsDigit(d[1]) /\ d[1] # "0"
  \/ Len(d) = 2 /\ d[1] = "1" /\ IsDigit(d[2])
  \/ Len(d) = 2 /\ d[1] = "2" /\ d[2] \in {"0", "1", "2", "3", "4"}

\* ([1-9]|1[0-9]|2[0-3]) of the hours pattern
HourNumber(d) ==
  \/ Len(d) = 1 /\ IsDigit(d[1]) /\ d[1] # "0"
  \/ Len(d) = 2 /\ d[1] = "1" /\ IsDigit(d[2])
  \/ Len(d) = 2 /\ d[1] = "2" /\ d[2] \in {"0", "1", "2", "3"}

\* re.fullmatch(<number>\s*<unit>\s*전, t), for the minutes or the hours pattern
FullMatch(t, minutes) ==
  \E n \in 1..2 :
    /\ n <= Len(t)
    /\ IF minutes THEN MinuteNumber(SubSeq(t, 1, n)) ELSE HourNumber(SubSeq(t, 1, n))
    /\ LET r1 == LStripSpace(SubSeq(t, n + 1, Len(t)))
           unit == IF minutes THEN <<"BUN">> ELSE <<"SI", "GAN">>
       IN  /\ StartsWith(r1, unit)
           /\ LStripSpace(SubSeq(r1, Len(unit) + 1, Len(r1))) = <<"JEON">>

parse_relative_allowed(text) ==
  LET t == Strip(text)
  IN  \/ FullMatch(t, TRUE)
      \/ FullMatch(t, FALSE)

----------------------------------------------------------------------------
(* The parsed page and extract_card_from_time_span *)

\* An HTML body is the sequence of its elements in document order, each with its
\* tag name, its class list, its own text (one string child when non-empty), and,
\* for an anchor, its data-heatmap-target and href attributes.  The empty body is <<>>.
TIME_SPAN_CLASS == {"sds-comps-text", "sds-comps-text-type-body2", "sds-comps-text-weight-sm"}

SNIPPET_CLASSES == {"sds-comps-text-ellipsis", "sds-comps-text-type-body2"}

\* the node cap of both forward scans
ScanCap == 200

\* the least snippet length
SnippetMinLen == 10

\* has_classes(tag, classes)
has_classes(tag, classes) == tag.class # {} /\ classes \subseteq tag.class

\* the positions k.. of the spans that carry all of TIME_SPAN_CLASS
RECURSIVE TimeSpansFrom(_, _)
TimeSpansFrom(doc, k) ==
  IF k > Len(doc) THEN <<>>
  ELSE IF doc[k].name = "span" /\ has_classes(doc[k], TIME_SPAN_CLASS)
       THEN <<k>> \o TimeSpansFrom(doc, k + 1)
       ELSE TimeSpansFrom(doc, k + 1)

\* soup.find_all("span", class_=...) filtered by has_classes(s, TIME_SPAN_CLASS):
\* the positions of the time spans, in document order
TimeSpans(doc) == TimeSpansFrom(doc, 1)

\* tag.get_text(strip=True) of an element with one string child
get_text(tag) == Strip(tag.text)

\* the elements from position k on, each followed by its string child
RECURSIVE ElementsFrom(_, _)
ElementsFrom(doc, k) ==
  IF k > Len(doc) THEN <<>>
  ELSE <<[el |-> k, str |-> FALSE]>>
       \o (IF doc[k].text # <<>> THEN <<[el |-> k, str |-> TRUE]>> ELSE <<>>)
       \o ElementsFrom(doc, k + 1)

\* e.next_elements of element pos: its own string child, then everything after it
NextElements(doc, pos) ==
  (IF doc[pos].text # <<>> THEN <<[el |-> pos, str |-> TRUE]>> ELSE <<>>)
  \o ElementsFrom(doc, pos + 1)

IsTitleAnchor(e) == e.name = "a" /\ e.target = ".tit"

\* the first loop: the index in ne of the first title anchor among the first
\* ScanCap next elements, 0 when there is none
FirstTitle(doc, ne) ==
  IF \E k \in 1..Len(ne) : k <= ScanCap /\ ~ne[k].str /\ IsTitleAnchor(doc[ne[k].el])
  THEN CHOOSE k \in 1..Len(ne) :
         /\ k <= ScanCap /\ ~ne[k].str /\ IsTitleAnchor(doc[ne[k].el])
         /\ \A m \in 1..(k - 1) : ne[m].str \/ ~IsTitleAnchor(doc[ne[m].el])
  ELSE 0

\* the test of the second loop: a span with a snippet class whose text is not
\* empty, is not the title and has SnippetMinLen characters or more
IsSnippet(e, title) ==
  /\ e.name = "span"
  /\ e.class \cap SNIPPET_CLASSES # {}
  /\ get_text(e) # <<>>
  /\ get_text(e) # title
  /\ Len(get_text(e)) >= SnippetMinLen

\* the second loop: the index in ne of the first element among the first ScanCap
\* next elements that passes the test, 0 when there is none
FirstSnippet(doc, ne, title) ==
  IF \E k \in 1..Len(ne) : k <= ScanCap /\ ~ne[k].str /\ IsSnippet(doc[ne[k].el], title)
  THEN CHOOSE k \in 1..Len(ne) :
         /\ k <= ScanCap /\ ~ne[k].str /\ IsSnippet(doc[ne[k].el], title)
         /\ \A m \in 1..(k - 1) : ne[m].str \/ ~IsSnippet(doc[ne[m].el], title)
  ELSE 0

\* snippet: the text of the span the second loop stopped at, "" when it found none
SnippetText(doc, ne, k) == IF k = 0 THEN <<>> ELSE get_text(doc[ne[k].el])

\* the card made from title anchor a
CardOf(doc, a, title) ==
  [title |-> title, link |-> doc[a].href,
   snippet |-> SnippetText(doc, NextElements(doc, a),
                           FirstSnippet(doc, NextElements(doc, a), title))]

\* the rest of extract_card_from_time_span once the first loop ended at ne[k]
CardAt(doc, ne, k) == IF k = 0 THEN <<>> ELSE <<CardOf(doc, ne[k].el, get_text(doc[ne[k].el]))>>

\* extract_card_from_time_span(span): <<>> for None, else <<card>>
extract_card_from_time_span(doc, pos) ==
  CardAt(doc, NextElements(doc, pos), FirstTitle(doc, NextElements(doc, pos)))

----------------------------------------------------------------------------
(* State *)

VARIABLES
  \* normalize_link under test
  l_parts,   \* the components the input URL is written from
  l_url,     \* the input URL as a str
  l_key,     \* normalize_link(l_url)
  l_key2,    \* normalize_link(l_key)
  l_pc,      \* "idle" | "input" | "normalized" | "renormalized"
  m_parts,   \* the pieces the time marker of a one-marker page is written from
  \* the run_btn block
  b_pc,              \* "idle" | "clients" | "custom" | "market" | "done"
  client_queries,    \* the queries made from the uploaded sheet
  custom_mode,       \* the sidebar checkbox
  custom_queries,    \* the non-empty lines of the text area
  include_market,    \* the sidebar checkbox
  slider_n,          \* the sidebar slider max_n
  idx,               \* enumerate(..., start=1) of the running query loop
  clients_rows_all,
  custom_rows_all,   \* <<>> stands for both [] and None (custom_mode tells which)
  market_rows_all,
  \* the session and one fetch_news call
  session_max_retry, \* session._max_retry
  f_pc,              \* "idle" | "get_html" | "backoff" | "got_html" | "loop" | "jitter" | "returned"
  query, max_n, include_query_col,   \* fetch_news's arguments
  attempt,           \* get_html: the loop variable
  requests,          \* get_html: session.get calls made so far in this call
  sleeps,            \* get_html: the exponents k of the time.sleep(RETRY_BACKOFF_BASE ** k) calls so far
  html,              \* <<>> for None, else <<body>>
  spans,             \* positions of the time spans in the body
  si,                \* the span the for loop is at (1-based)
  seen_titles, seen_links, rows,
  jitters,           \* jitter_sleep calls made by this fetch_news call
  ret                \* the list fetch_news returned

linkVars == <<l_parts, l_url, l_key, l_key2, l_pc, m_parts>>

batchVars == <<b_pc, client_queries, custom_mode, custom_queries, include_market, slider_n,
               idx, clients_rows_all, custom_rows_all, market_rows_all>>

fetchVars == <<session_max_retry, f_pc, query, max_n, include_query_col, attempt, requests,
               sleeps, html, spans, si, seen_titles, seen_links, rows, jitters, ret>>

vars == <<linkVars, batchVars, fetchVars>>

MAX_RETRY_DEFAULT == 2

\* a part of the program that a specification leaves out stays as it is here
IdleLink ==
  /\ l_parts = <<>> /\ l_url = <<>> /\ l_key = <<>> /\ l_key2 = <<>> /\ l_pc = "idle"
  /\ m_parts = <<>>

IdleBatch ==
  /\ b_pc = "idle" /\ client_queries = <<>> /\ custom_mode = FALSE /\ custom_queries = <<>>
  /\ include_market = FALSE /\ slider_n = 1 /\ idx = 0
  /\ clients_rows_all = <<>> /\ custom_rows_all = <<>> /\ market_rows_all = <<>>

\* no fetch_news call is running
IdleFetch ==
  /\ f_pc = "idle" /\ query = "" /\ max_n = 1 /\ include_query_col = FALSE
  /\ attempt = 0 /\ requests = 0 /\ sleeps = <<>> /\ html = <<>> /\ spans = <<>> /\ si = 0
  /\ seen_titles = {} /\ seen_links = {} /\ rows = <<>> /\ jitters = 0 /\ ret = <<>>

----------------------------------------------------------------------------
(* normalize_link applied to URLs written from their components *)

\* the most query parameters an input URL carries
MaxParams == 2

\* scheme, "//" + netloc (auth), or a leading relative segment (lead) when there is no "//"
Origins == {
  [scheme |-> https, auth |-> TRUE, host |-> NAVER_DOMAIN, port |-> <<>>, lead |-> <<>>],
  [scheme |-> <<"H","T","T","P">>, auth |-> TRUE,
   host |-> <<"N",".","N","e","w","s",".","N","a","v","e","r",".","c","o","m">>, port |-> <<>>, lead |-> <<>>],
  [scheme |-> <<>>, auth |-> TRUE, host |-> NAVER_DOMAIN, port |-> <<>>, lead |-> <<>>],
  [scheme |-> https, auth |-> TRUE, host |-> NAVER_DOMAIN, port |-> <<":","4","4","3">>, lead |-> <<>>],
  [scheme |-> https, auth |-> TRUE, host |-> <<"e","x","a","m","p","l","e",".","c","o","m">>, port |-> <<>>, lead |-> <<>>],
  [scheme |-> <<"h","t","t","p">>, auth |-> TRUE, host |-> <<"E","x","a","m","p","l","e",".","c","o","m">>, port |-> <<>>, lead |-> <<>>],
  [scheme |-> <<>>, auth |-> FALSE, host |-> <<>>, port |-> <<>>, lead |-> <<"e","x","a","m","p","l","e",".","c","o","m">>],
  [scheme |-> https, auth |-> TRUE, host |-> <<"[","x">>, port |-> <<>>, lead |-> <<>>]}

Paths == {<<>>, <<"/">>, <<"/","a">>, <<"/","a","/">>}

\* a query parameter as written (raw) and what it says (name, value)
ParamPool == {
  [raw |-> <<"o","i","d","=","1">>, name |-> OID, value |-> <<"1">>],
  [raw |-> <<"a","i","d","=","2">>, name |-> AID, value |-> <<"2">>],
  [raw |-> <<"u","t","m","_","s","o","u","r","c","e","=","x">>,
   name |-> <<"u","t","m","_","s","o","u","r","c","e">>, value |-> <<"x">>],
  [raw |-> <<"i","d","=","2">>, name |-> <<"i","d">>, value |-> <<"2">>],
  [raw |-> <<"i","d","=","1">>, name |-> <<"i","d">>, value |-> <<"1">>],
  [raw |-> <<"b">>, name |-> <<"b">>, value |-> <<>>],
  [raw |-> <<"q","=","%","2","f","+">>, name |-> <<"q">>, value |-> <<"/"," ">>]}

Fragments == {<<>>, <<"f">>}

ParamLists == UNION {[1..n -> ParamPool] : n \in 0..MaxParams}

UrlParts == [origin : Origins, path : Paths, params : ParamLists, fragment : Fragments]

\* the URL a browser or a page would write for these components
FormatUrl(u) ==
  (IF u.origin.scheme # <<>> THEN u.origin.scheme \o <<":">> ELSE <<>>)
  \o (IF u.origin.auth THEN <<"/","/">> \o u.origin.host \o u.origin.port ELSE <<>>)
  \o u.origin.lead \o u.path
  \o (IF u.params # <<>>
      THEN <<"?">> \o Join([i \in 1..Len(u.params) |-> u.params[i].raw], <<"&">>) ELSE <<>>)
  \o (IF u.fragment # <<>> THEN <<"#">> \o u.fragment ELSE <<>>)

InitLink ==
  /\ l_parts \in UrlParts
  /\ l_url = FormatUrl(l_parts)
  /\ l_key = <<>>
  /\ l_key2 = <<>>
  /\ l_pc = "input"
  /\ m_parts = <<>>
  /\ IdleBatch
  /\ IdleFetch
  /\ session_max_retry = MAX_RETRY_DEFAULT

\* key = normalize_link(url)
LinkNormalize ==
  /\ l_pc = "input"
  /\ l_key' = normalize_link(l_url)
  /\ l_pc' = "normalized"
  /\ UNCHANGED <<l_parts, l_url, l_key2, m_parts, batchVars, fetchVars>>

\* normalize_link applied to its own result
LinkRenormalize ==
  /\ l_pc = "normalized"
  /\ l_key2' = normalize_link(l_key)
  /\ l_pc' = "renormalized"
  /\ UNCHANGED <<l_parts, l_url, l_key, m_parts, batchVars, fetchVars>>

NextLink == LinkNormalize \/ LinkRenormalize

SpecLink == InitLink /\ [][NextLink]_vars

----------------------------------------------------------------------------
(* Claims about normalize_link, checked under SpecLink *)

\* the input is one urlparse accepts
Parses == ~urlparse(l_url).err

\* the input has a host, and it ends with the aggregator domain
OnAggregator == l_parts.origin.auth /\ EndsWith(Lower(l_parts.origin.host), NAVER_DOMAIN)

\* the input has a host, and it is another one
OnOtherHost == l_parts.origin.auth /\ ~EndsWith(Lower(l_parts.origin.host), NAVER_DOMAIN)

\* the value the query string gives a name first, <<>> when it gives none
FirstValue(params, name) ==
  IF \E k \in 1..Len(params) : params[k].name = name
  THEN params[CHOOSE k \in 1..Len(params) :
                /\ params[k].name = name
                /\ \A j \in 1..(k - 1) : params[j].name # name].value
  ELSE <<>>

\* C7 as stated: normalizing a normalized link changes nothing, whatever the
\* branch, for every input that parses.
C7_Idempotent == (l_pc = "renormalized" /\ Parses) => l_key2 = l_key

\* C8 as stated: on a host that ends with the aggregator domain the key is
\* "naver:oid=<oid>&aid=<aid>" when the query carries both, and otherwise the
\* host followed by the path without its trailing slash.
C8_AggregatorKey ==
  (l_pc # "input" /\ Parses /\ OnAggregator) =>
    l_key = IF FirstValue(l_parts.params, OID) # <<>> /\ FirstValue(l_parts.params, AID) # <<>>
            THEN <<"n","a","v","e","r",":","o","i","d","=">> \o FirstValue(l_parts.params, OID)
                 \o <<"&","a","i","d","=">> \o FirstValue(l_parts.params, AID)
            ELSE Lower(l_parts.origin.host) \o RStrip(l_parts.path, "/")

\* the parameters that are not tracking parameters, as <<name, value>> pairs
Untracked(params) ==
  [i \in 1..Len(SelectSeq(params, LAMBDA q : q.name \notin TRACKING_PARAMS)) |->
     <<SelectSeq(params, LAMBDA q : q.name \notin TRACKING_PARAMS)[i].name,
       SelectSeq(params, LAMBDA q : q.name \notin TRACKING_PARAMS)[i].value>>]

Count(seq, x) == Cardinality({i \in 1..Len(seq) : seq[i] = x})

\* the same pairs, each as often
SamePairs(a, b) == Len(a) = Len(b) /\ \A i \in 1..Len(a) : Count(a, a[i]) = Count(b, a[i])

\* what C9 says of parameters and fragment: no tracking parameter is left,
\* every other parameter is kept with all its values, the fragment is gone,
\* and the input without its tracking parameters normalizes to the same string
C9Query(res) ==
  /\ \A k \in 1..Len(parse_qsl(res.query, TRUE)) :
        parse_qsl(res.query, TRUE)[k][1] \notin TRACKING_PARAMS
  /\ SamePairs(parse_qsl(res.query, TRUE), Untracked(l_parts.params))
  /\ res.fragment = <<>>
  /\ "#" \notin Range(l_key)
  /\ l_key = normalize_link(FormatUrl(
                [l_parts EXCEPT !.params = SelectSeq(l_parts.params,
                                             LAMBDA q : q.name \notin TRACKING_PARAMS)]))

\* C9 as stated: on another host, tracking parameters go, the others stay, the
\* fragment is dropped and the path loses its trailing slash.
C9_GeneralUrl ==
  (l_pc # "input" /\ Parses /\ OnOtherHost) =>
    /\ C9Query(urlparse(l_key))
    /\ urlparse(l_key).path = RStrip(l_parts.path, "/")

\* C9 (amended): on another host, tracking parameters go, the others stay with
\* all their values, the fragment is dropped, and the path loses its trailing
\* slashes, except that an empty or all-slash path becomes "/".
C9_GeneralUrlRootKept ==
  (l_pc # "input" /\ Parses /\ OnOtherHost) =>
    /\ C9Query(urlparse(l_key))
    /\ urlparse(l_key).path = IF RStrip(l_parts.path, "/") = <<>> THEN <<"/">>
                               ELSE RStrip(l_parts.path, "/")

\* C9 witness: https://example.com/a/?utm_source=x&id=1#f has been normalized
C9_Witness ==
  /\ l_pc = "normalized"
  /\ l_url = <<"h","t","t","p","s",":","/","/","e","x","a","m","p","l","e",".","c","o","m",
               "/","a","/","?","u","t","m","_","s","o","u","r","c","e","=","x","&","i","d","=","1","#","f">>
  /\ l_key = <<"h","t","t","p","s",":","/","/","e","x","a","m","p","l","e",".","c","o","m",
               "/","a","?","i","d","=","1">>

----------------------------------------------------------------------------
(* get_html and fetch_news *)

\* get_html, one attempt: session.get answers 200; return r.text
GetHtml200(Bodies) ==
  /\ f_pc = "get_html"
  /\ attempt <= session_max_retry
  /\ \E body \in Bodies : html' = <<body>>
  /\ requests' = requests + 1
  /\ f_pc' = "got_html"
  /\ UNCHANGED <<linkVars, batchVars, session_max_retry, query, max_n, include_query_col, attempt, sleeps,
                 spans, si, seen_titles, seen_links, rows, jitters, ret>>

\* GetHtmlNon200 with a range that is one attempt too long
GetHtmlNon200_extra ==
  /\ f_pc = "get_html"
  /\ attempt <= session_max_retry + 1
  /\ requests' = requests + 1
  /\ f_pc' = "backoff"
  /\ UNCHANGED <<linkVars, batchVars, session_max_retry, query, max_n, include_query_col, attempt, sleeps, html,
                 spans, si, seen_titles, seen_links, rows, jitters, ret>>

\* get_html, one attempt: session.get answers another status; it is logged
GetHtmlNon200 ==
  /\ f_pc = "get_html"
  /\ attempt <= session_max_retry
  /\ requests' = requests + 1
  /\ f_pc' = "backoff"
  /\ UNCHANGED <<linkVars, batchVars, session_max_retry, query, max_n, include_query_col, attempt, sleeps, html,
                 spans, si, seen_titles, seen_links, rows, jitters, ret>>

\* get_html, one attempt: session.get raises; except Exception logs it
GetHtmlError ==
  /\ f_pc = "get_html"
  /\ attempt <= session_max_retry
  /\ requests' = requests + 1
  /\ f_pc' = "backoff"
  /\ UNCHANGED <<linkVars, batchVars, session_max_retry, query, max_n, include_query_col, attempt, sleeps, html,
                 spans, si, seen_titles, seen_links, rows, jitters, ret>>

\* get_html: time.sleep(RETRY_BACKOFF_BASE ** attempt) ends the iteration
GetHtmlBackoff ==
  /\ f_pc = "backoff"
  /\ sleeps' = Append(sleeps, attempt)
  /\ attempt' = attempt + 1
  /\ f_pc' = "get_html"
  /\ UNCHANGED <<linkVars, batchVars, session_max_retry, query, max_n, include_query_col, requests, html,
                 spans, si, seen_titles, seen_links, rows, jitters, ret>>

\* get_html: the range is used up; return None
GetHtmlExhausted ==
  /\ f_pc = "get_html"
  /\ attempt > session_max_retry
  /\ html' = <<>>
  /\ f_pc' = "got_html"
  /\ UNCHANGED <<linkVars, batchVars, session_max_retry, query, max_n, include_query_col, attempt, requests, sleeps,
                 spans, si, seen_titles, seen_links, rows, jitters, ret>>

\* "not html": get_html gave None or an empty body
NoHtml == IF html = <<>> THEN TRUE ELSE html[1] = <<>>

\* fetch_news: if not html: return []  (get_html's locals are gone by now)
FetchNoHtml ==
  /\ f_pc = "got_html"
  /\ NoHtml
  /\ ret' = <<>>
  /\ f_pc' = "returned"
  /\ attempt' = 0 /\ requests' = 0 /\ sleeps' = <<>>
  /\ UNCHANGED <<linkVars, batchVars, session_max_retry, query, max_n, include_query_col,
                 html, spans, si, seen_titles, seen_links, rows, jitters>>

\* FetchParse that starts the sets from the rows the batch has collected so far
FetchParse_shared ==
  /\ f_pc = "got_html"
  /\ ~NoHtml
  /\ spans' = TimeSpans(html[1])
  /\ si' = 1
  /\ seen_titles' = {normalize_title((clients_rows_all \o custom_rows_all)[i].title) :
                       i \in 1..Len(clients_rows_all \o custom_rows_all)}
  /\ seen_links' = {}
  /\ rows' = <<>>
  /\ f_pc' = "loop"
  /\ attempt' = 0 /\ requests' = 0 /\ sleeps' = <<>>
  /\ UNCHANGED <<linkVars, batchVars, session_max_retry, query, max_n, include_query_col, html, jitters, ret>>

\* fetch_news: parse the body, collect the time spans, start the loop with empty sets
FetchParse ==
  /\ f_pc = "got_html"
  /\ ~NoHtml
  /\ spans' = TimeSpans(html[1])
  /\ si' = 1
  /\ seen_titles' = {}
  /\ seen_links' = {}
  /\ rows' = <<>>
  /\ f_pc' = "loop"
  /\ attempt' = 0 /\ requests' = 0 /\ sleeps' = <<>>
  /\ UNCHANGED <<linkVars, batchVars, session_max_retry, query, max_n, include_query_col, html, jitters, ret>>

\* AtSpan with the bound tested one row late
AtSpan_late == f_pc = "loop" /\ si <= Len(spans) /\ Len(rows) <= max_n

\* the loop body is entered for spans[si]
AtSpan == f_pc = "loop" /\ si <= Len(spans) /\ Len(rows) < max_n

SpanText == get_text(html[1][spans[si]])

SpanCard == extract_card_from_time_span(html[1], spans[si])

\* Rejected with "and" where the code has "or"
Rejected_both(link_norm, title_norm, links, titles) ==
  link_norm # <<>> /\ link_norm \in links /\ title_norm \in titles

\* the test of the dedup if
Rejected(link_norm, title_norm, links, titles) ==
  IF link_norm # <<>> /\ link_norm \in links THEN TRUE ELSE title_norm \in titles

\* the for loop has no span left
LoopExhausted ==
  /\ f_pc = "loop"
  /\ si > Len(spans)
  /\ f_pc' = "jitter"
  /\ UNCHANGED <<linkVars, batchVars, session_max_retry, query, max_n, include_query_col, attempt, requests, sleeps,
                 html, spans, si, seen_titles, seen_links, rows, jitters, ret>>

\* if len(rows) >= max_n: break
LoopBreak ==
  /\ f_pc = "loop"
  /\ si <= Len(spans)
  /\ Len(rows) >= max_n
  /\ f_pc' = "jitter"
  /\ UNCHANGED <<linkVars, batchVars, session_max_retry, query, max_n, include_query_col, attempt, requests, sleeps,
                 html, spans, si, seen_titles, seen_links, rows, jitters, ret>>

\* if not parse_relative_allowed(t): continue
MarkerFiltered ==
  /\ AtSpan
  /\ ~parse_relative_allowed(SpanText)
  /\ si' = si + 1
  /\ UNCHANGED <<linkVars, batchVars, session_max_retry, f_pc, query, max_n, include_query_col, attempt, requests,
                 sleeps, html, spans, seen_titles, seen_links, rows, jitters, ret>>

\* if not card: continue
MarkerNoCard ==
  /\ AtSpan
  /\ parse_relative_allowed(SpanText)
  /\ SpanCard = <<>>
  /\ si' = si + 1
  /\ UNCHANGED <<linkVars, batchVars, session_max_retry, f_pc, query, max_n, include_query_col, attempt, requests,
                 sleeps, html, spans, seen_titles, seen_links, rows, jitters, ret>>

\* MarkerDuplicate with "break" where the code has "continue"
MarkerDuplicate_break ==
  /\ f_pc = "loop" /\ si <= Len(spans) /\ Len(rows) < max_n
  /\ parse_relative_allowed(SpanText)
  /\ SpanCard # <<>>
  /\ IF normalize_link(SpanCard[1].link) # <<>>
        /\ normalize_link(SpanCard[1].link) \in seen_links
     THEN TRUE ELSE normalize_title(SpanCard[1].title) \in seen_titles
  /\ f_pc' = "jitter"
  /\ UNCHANGED <<linkVars, batchVars, session_max_retry, query, max_n, include_query_col,
                 attempt, requests, sleeps, html, spans, si, seen_titles, seen_links, rows,
                 jitters, ret>>

\* the card collides with an accepted one: continue
MarkerDuplicate ==
  /\ AtSpan
  /\ parse_relative_allowed(SpanText)
  /\ SpanCard # <<>>
  /\ Rejected(normalize_link(SpanCard[1].link), normalize_title(SpanCard[1].title),
              seen_links, seen_titles)
  /\ si' = si + 1
  /\ UNCHANGED <<linkVars, batchVars, session_max_retry, f_pc, query, max_n, include_query_col,
                 attempt, requests, sleeps, html, spans, seen_titles, seen_links, rows,
                 jitters, ret>>

\* the row of an accepted card
MakeRow(card, q, with_query) ==
  IF with_query
  THEN [title |-> card.title, snippet |-> card.snippet, link |-> card.link, query |-> q]
  ELSE [title |-> card.title, snippet |-> card.snippet, link |-> card.link]

\* Accept that forgets to record the title
Accept_no_title(card, link_norm, title_norm) ==
  /\ ~Rejected(link_norm, title_norm, seen_links, seen_titles)
  /\ seen_links' = IF link_norm # <<>> THEN seen_links \cup {link_norm} ELSE seen_links
  /\ seen_titles' = seen_titles
  /\ rows' = Append(rows, MakeRow(card, query, include_query_col))

\* the card is new: its keys go into the sets, its row is appended
Accept(card, link_norm, title_norm) ==
  /\ ~Rejected(link_norm, title_norm, seen_links, seen_titles)
  /\ seen_links' = IF link_norm # <<>> THEN seen_links \cup {link_norm} ELSE seen_links
  /\ seen_titles' = seen_titles \cup {title_norm}
  /\ rows' = Append(rows, MakeRow(card, query, include_query_col))

MarkerAccept ==
  /\ AtSpan
  /\ parse_relative_allowed(SpanText)
  /\ SpanCard # <<>>
  /\ Accept(SpanCard[1], normalize_link(SpanCard[1].link), normalize_title(SpanCard[1].title))
  /\ si' = si + 1
  /\ UNCHANGED <<linkVars, batchVars, session_max_retry, f_pc, query, max_n, include_query_col,
                 attempt, requests, sleeps, html, spans, jitters, ret>>

\* jitter_sleep(); return rows
FetchReturn ==
  /\ f_pc = "jitter"
  /\ jitters' = jitters + 1
  /\ ret' = rows
  /\ f_pc' = "returned"
  /\ UNCHANGED <<linkVars, batchVars, session_max_retry, query, max_n, include_query_col, attempt, requests, sleeps,
                 html, spans, si, seen_titles, seen_links, rows>>

----------------------------------------------------------------------------
(* Pages *)

L1 == <<"h","t","t","p","s",":","/","/","n","e","w","s",".","n","a","v","e","r",".","c","o","m","/","r","?","o","i","d","=","1","&","a","i","d","=","2">>
L2 == <<"h","t","t","p",":","/","/","n",".","n","e","w","s",".","n","a","v","e","r",".","c","o","m","/","m","?","a","i","d","=","2","&","r","e","f","=","z","&","o","i","d","=","1">>
L3 == <<"h","t","t","p","s",":","/","/","e","x","a","m","p","l","e",".","c","o","m","/","a","?","i","d","=","1">>
L4 == <<"h","t","t","p","s",":","/","/","E","x","a","m","p","l","e",".","c","o","m","/","a","/","?","u","t","m","_","s","o","u","r","c","e","=","x","&","i","d","=","1","#","f">>
T1 == <<"A","B","C"," "," ","d","e","f">>
T2 == <<"a","b","c"," ","d","e","f">>
T3 == <<"X","y","z">>
T5 == <<"p","q","r">>

\* <span class="sds-comps-text sds-comps-text-type-body2 sds-comps-text-weight-sm">text</span>
TimeSpan(text) ==
  [name |-> "span", class |-> TIME_SPAN_CLASS, text |-> text, target |-> "", href |-> <<>>]

\* <a data-heatmap-target=".tit" href="href">title</a>
TitleAnchor(title, href) ==
  [name |-> "a", class |-> {}, text |-> title, target |-> ".tit", href |-> href]

Recent == <<"5","BUN"," ","JEON">>
HourAgo == <<"1","SI","GAN"," ","JEON">>
DayAgo == <<"2","4","SI","GAN"," ","JEON">>

\* the pieces pages are put together from: a time span and the title anchor after it
Blocks == {
  <<TimeSpan(Recent), TitleAnchor(T1, L1)>>,
  <<TimeSpan(Recent), TitleAnchor(T2, L3)>>,
  <<TimeSpan(HourAgo), TitleAnchor(T3, L2)>>,
  <<TimeSpan(Recent), TitleAnchor(T5, L4)>>,
  <<TimeSpan(Recent), TitleAnchor(T3, <<>>)>>,
  <<TimeSpan(HourAgo)>>,
  <<TimeSpan(DayAgo), TitleAnchor(T1, L1)>>}

\* the most blocks on a page
MaxBlocks == 3

RECURSIVE Concat(_)
Concat(ss) == IF ss = <<>> THEN <<>> ELSE ss[1] \o Concat(Tail(ss))

\* the bodies a search may answer with; <<>> is the empty body
FetchBodies == {Concat(bs) : bs \in UNION {[1..n -> Blocks] : n \in 0..MaxBlocks}}

\* the body every search of a batch run answers with: an old article, one
\* article twice, and a marker with no card after it
BatchBodies == {<<TimeSpan(DayAgo), TitleAnchor(T5, L4),
                  TimeSpan(Recent), TitleAnchor(T1, L1),
                  TimeSpan(HourAgo), TitleAnchor(T2, L2),
                  TimeSpan(HourAgo)>>}

----------------------------------------------------------------------------
(* One fetch_news call *)

\* the largest max_n tried (the slider goes to 10)
MaxN == 2

\* the largest session._max_retry tried
MaxRetry == 2

\* fetch_news(session, q, n, with_query) is entered: get_html starts its first attempt
EnterFetch(q, n, with_query) ==
  /\ f_pc' = "get_html"
  /\ query' = q
  /\ max_n' = n
  /\ include_query_col' = with_query
  /\ attempt' = 1
  /\ requests' = 0
  /\ sleeps' = <<>>
  /\ html' = <<>>
  /\ spans' = <<>>
  /\ si' = 0
  /\ seen_titles' = {}
  /\ seen_links' = {}
  /\ rows' = <<>>
  /\ jitters' = 0
  /\ ret' = <<>>
  /\ UNCHANGED session_max_retry

\* a fetch_news call of its own, with the session make_session() makes
InitFetch ==
  /\ IdleLink
  /\ IdleBatch
  /\ session_max_retry = MAX_RETRY_DEFAULT
  /\ f_pc = "get_html"
  /\ query = "q1"
  /\ max_n \in 1..MaxN
  /\ include_query_col \in BOOLEAN
  /\ attempt = 1
  /\ requests = 0
  /\ sleeps = <<>>
  /\ html = <<>>
  /\ spans = <<>>
  /\ si = 0
  /\ seen_titles = {}
  /\ seen_links = {}
  /\ rows = <<>>
  /\ jitters = 0
  /\ ret = <<>>

NextFetch ==
  \/ GetHtml200(FetchBodies)
  \/ GetHtmlNon200
  \/ GetHtmlError
  \/ GetHtmlBackoff
  \/ GetHtmlExhausted
  \/ FetchNoHtml
  \/ FetchParse
  \/ LoopExhausted
  \/ LoopBreak
  \/ MarkerFiltered
  \/ MarkerNoCard
  \/ MarkerDuplicate
  \/ MarkerAccept
  \/ FetchReturn

SpecFetch == InitFetch /\ [][NextFetch]_vars

----------------------------------------------------------------------------
(* Claims about one fetch_news call, checked under SpecFetch *)

Min(a, b) == IF a < b THEN a ELSE b

\* the card of every qualifying marker that has one, in document order
RECURSIVE CardsFrom(_, _, _)
CardsFrom(doc, sp, i) ==
  IF i > Len(sp) THEN <<>>
  ELSE (IF parse_relative_allowed(get_text(doc[sp[i]]))
        THEN extract_card_from_time_span(doc, sp[i]) ELSE <<>>)
       \o CardsFrom(doc, sp, i + 1)

DocCards(doc) == CardsFrom(doc, TimeSpans(doc), 1)

\* two cards collide: same normalized title, or same non-empty normalized link
Collide(c, d) ==
  \/ normalize_title(c.title) = normalize_title(d.title)
  \/ /\ normalize_link(c.link) # <<>>
     /\ normalize_link(c.link) = normalize_link(d.link)

\* the cards the acceptance rule keeps over a whole list of cards
RECURSIVE KeptFrom(_, _, _)
KeptFrom(cards, i, kept) ==
  IF i > Len(cards) THEN kept
  ELSE IF \E k \in 1..Len(kept) : Collide(kept[k], cards[i])
       THEN KeptFrom(cards, i + 1, kept)
       ELSE KeptFrom(cards, i + 1, Append(kept, cards[i]))

\* the call got a page and has returned
ReturnedFromPage == f_pc = "returned" /\ ~NoHtml

\* C1: the rows collected so far, and the rows returned, are never more than
\* max_n, whatever the page and whatever the fetch outcome.
C1_RowsAtMostN == Len(rows) <= max_n /\ Len(ret) <= max_n

\* C1 witness: the loop stopped at max_n rows with markers left to look at
C1_Witness ==
  f_pc = "returned" /\ Len(ret) = max_n /\ si <= Len(spans) /\ Len(DocCards(html[1])) > max_n

\* no two rows share a normalized title or a non-empty normalized link
UniqueRows(rs) ==
  \A i \in 1..Len(rs) : \A j \in (i + 1)..Len(rs) : ~Collide(rs[i], rs[j])

\* C2 as stated: rows are unique, and of the cards that collide the first in
\* document order is the one kept, so no returned row collides with a card
\* that comes before it in the document.
C2_FirstInDocumentKept ==
  ReturnedFromPage =>
    /\ UniqueRows(ret)
    /\ \A r \in 1..Len(ret) :
         \E j \in 1..Len(DocCards(html[1])) :
           /\ MakeRow(DocCards(html[1])[j], query, include_query_col) = ret[r]
           /\ \A i \in 1..(j - 1) : ~Collide(DocCards(html[1])[i], DocCards(html[1])[j])

\* one step of the marker loop at a qualifying marker with a card: the card is
\* dropped only if it collides with a row already kept, otherwise its row is
\* appended after the rows already kept
C2Step ==
  (AtSpan /\ parse_relative_allowed(SpanText) /\ SpanCard # <<>>) =>
    IF \E k \in 1..Len(rows) : Collide(rows[k], SpanCard[1])
    THEN rows' = rows
    ELSE rows' = Append(rows, MakeRow(SpanCard[1], query, include_query_col))

\* C2 (amended): rows are always unique in normalized title and in non-empty
\* normalized link; a card is dropped exactly when it collides with a row
\* already kept, and the kept rows stay, in order.
C2_FirstKeptWins == [](UniqueRows(rows) /\ UniqueRows(ret)) /\ [][C2Step]_vars

\* C2 witness: three cards in a chain; the second was dropped for its title and
\* the third, whose link is the second's, was kept
C2_Witness ==
  /\ ReturnedFromPage
  /\ Len(DocCards(html[1])) = 3
  /\ Len(ret) = 2
  /\ Collide(DocCards(html[1])[2], DocCards(html[1])[3])
  /\ ret[2] = MakeRow(DocCards(html[1])[3], query, include_query_col)

\* C3: at a qualifying marker with a card, the card is rejected exactly when
\* its normalized link is non-empty and in seen_links, or its normalized title
\* is in seen_titles; a rejected card changes neither set nor the rows, an
\* accepted card adds its title, its link if non-empty, and its row.
C3Step ==
  (AtSpan /\ parse_relative_allowed(SpanText) /\ SpanCard # <<>>) =>
    LET link_norm == normalize_link(SpanCard[1].link)
        title_norm == normalize_title(SpanCard[1].title)
    IN  IF (link_norm # <<>> /\ link_norm \in seen_links) \/ title_norm \in seen_titles
        THEN /\ rows' = rows
             /\ seen_links' = seen_links
             /\ seen_titles' = seen_titles
        ELSE /\ Len(rows') = Len(rows) + 1
             /\ seen_titles' = seen_titles \cup {title_norm}
             /\ seen_links' = seen_links \cup (IF link_norm # <<>> THEN {link_norm} ELSE {})
             /\ <<>> \notin seen_links'

\* C3: every step of a fetch_news call follows the rejection rule
C3_RejectionRule == [][C3Step]_vars

\* C3 witness: a card with a new link whose title is already seen
C3_Witness ==
  /\ AtSpan /\ parse_relative_allowed(SpanText) /\ SpanCard # <<>>
  /\ normalize_link(SpanCard[1].link) # <<>>
  /\ normalize_link(SpanCard[1].link) \notin seen_links
  /\ normalize_title(SpanCard[1].title) \in seen_titles

\* C4: when the page was fetched, the rows returned are the first min(N, k)
\* of the k cards the acceptance rule keeps over the whole document, in
\* document order; filtered, cardless and duplicate markers are passed over.
C4_FirstMinNK ==
  ReturnedFromPage =>
    LET kept == KeptFrom(DocCards(html[1]), 1, <<>>)
    IN  ret = [i \in 1..Min(max_n, Len(kept)) |-> MakeRow(kept[i], query, include_query_col)]

\* C4 witness: three distinct qualifying cards and N = 2 give the first two
C4_Witness ==
  /\ ReturnedFromPage
  /\ max_n = 2
  /\ Len(DocCards(html[1])) = 3
  /\ Len(KeptFrom(DocCards(html[1]), 1, <<>>)) = 3
  /\ Len(ret) = 2

\* C14 as stated: every fetch_news call sleeps the politeness delay exactly
\* once, after its rows are produced and before it returns, whatever the
\* rows are, the empty list of a failed fetch included.
C14_DelayOnce ==
  /\ f_pc = "returned" => jitters = 1
  /\ f_pc \in {"get_html", "backoff", "got_html", "loop", "jitter"} => jitters = 0

----------------------------------------------------------------------------
(* get_html on its own, for any session._max_retry *)

InitGetHtml ==
  /\ IdleLink
  /\ IdleBatch
  /\ session_max_retry \in 1..MaxRetry
  /\ f_pc = "get_html"
  /\ query = "q1"
  /\ max_n = 1
  /\ include_query_col = FALSE
  /\ attempt = 1
  /\ requests = 0
  /\ sleeps = <<>>
  /\ html = <<>>
  /\ spans = <<>>
  /\ si = 0
  /\ seen_titles = {}
  /\ seen_links = {}
  /\ rows = <<>>
  /\ jitters = 0
  /\ ret = <<>>

NextGetHtml ==
  \/ GetHtml200(FetchBodies)
  \/ GetHtmlNon200
  \/ GetHtmlError
  \/ GetHtmlBackoff
  \/ GetHtmlExhausted

SpecGetHtml == InitGetHtml /\ [][NextGetHtml]_vars

\* C5: get_html makes at most session._max_retry requests; when it returns a
\* body, the 200 response was its last request and every request before it
\* failed and was followed by a sleep; when it returns None, every one of the
\* session._max_retry requests failed (bad status or exception, both caught).
C5_GetHtml ==
  /\ requests <= session_max_retry
  /\ f_pc = "got_html" =>
       IF html # <<>>
       THEN requests = Len(sleeps) + 1
       ELSE requests = session_max_retry /\ Len(sleeps) = session_max_retry

\* C5 witness: the second request is answered 200 after the first failed
C5_Witness == f_pc = "got_html" /\ html # <<>> /\ requests = 2 /\ Len(sleeps) = 1

\* C12 as stated: the sleeps happen between attempts: the k-th failed attempt
\* is followed by the sleep for attempt k and then by attempt k + 1, so the
\* loop is never past its last attempt after a sleep, and a returned body
\* comes after one sleep fewer than requests.
C12_SleepsBetweenAttempts ==
  /\ \A k \in 1..Len(sleeps) : sleeps[k] = k
  /\ f_pc = "get_html" => (Len(sleeps) = attempt - 1 /\ attempt <= session_max_retry)
  /\ (f_pc = "got_html" /\ html # <<>>) => Len(sleeps) = requests - 1

----------------------------------------------------------------------------
(* The time filter: fetch_news on a page with one marker and its card *)

\* the largest number written in a marker
MaxNum == 60

DIGITS == <<"0", "1", "2", "3", "4", "5", "6", "7", "8", "9">>

\* n in decimal, for n < 100
Dec(n) == IF n < 10 THEN <<DIGITS[n + 1]>>
          ELSE <<DIGITS[(n \div 10) + 1], DIGITS[(n % 10) + 1]>>

\* what stands where the number goes: a number as one writes it (plain), a
\* number with a leading zero, nothing, or a word
Numerals ==
  {[str |-> Dec(n), n |-> n, plain |-> TRUE] : n \in 0..MaxNum}
  \cup {[str |-> <<"0">> \o Dec(n), n |-> n, plain |-> FALSE] : n \in 0..9}
  \cup {[str |-> <<>>, n |-> 0, plain |-> FALSE],
        [str |-> <<"EO", "JE">>, n |-> 0, plain |-> FALSE]}

Pads == {<<>>, <<" ">>}

Gaps == {<<>>, <<" ">>, <<"TAB", " ">>}

MINUTES == <<"BUN">>

HOURS == <<"SI", "GAN">>

Units == {MINUTES, HOURS, <<"SI">>, <<"SI", " ", "GAN">>, <<>>}

AGO == <<"JEON">>

Tails == {AGO, <<>>, <<"JEON", "x">>}

MarkerParts == [pad : Pads, num : Numerals, gap1 : Gaps, unit : Units, gap2 : Gaps, tail : Tails]

\* the text of the marker
MarkerText(m) == m.pad \o m.num.str \o m.gap1 \o m.unit \o m.gap2 \o m.tail \o m.pad

\* the page: the marker and, after it, a title anchor
MarkerPage(m) == <<TimeSpan(MarkerText(m)), TitleAnchor(T1, L1)>>

InitTime ==
  /\ l_parts = <<>> /\ l_url = <<>> /\ l_key = <<>> /\ l_key2 = <<>> /\ l_pc = "idle"
  /\ m_parts \in MarkerParts
  /\ IdleBatch
  /\ session_max_retry = MAX_RETRY_DEFAULT
  /\ f_pc = "get_html"
  /\ query = "q1"
  /\ max_n = 1
  /\ include_query_col = FALSE
  /\ attempt = 1
  /\ requests = 0
  /\ sleeps = <<>>
  /\ html = <<>>
  /\ spans = <<>>
  /\ si = 0
  /\ seen_titles = {}
  /\ seen_links = {}
  /\ rows = <<>>
  /\ jitters = 0
  /\ ret = <<>>

NextTime ==
  \/ GetHtml200({MarkerPage(m_parts)})
  \/ FetchParse
  \/ MarkerFiltered
  \/ MarkerAccept
  \/ LoopExhausted
  \/ FetchReturn

SpecTime == InitTime /\ [][NextTime]_vars

\* a plain number in range, any white space, the unit, any white space, "전"
AllowedShape(m) ==
  /\ m.num.plain
  /\ \/ m.unit = MINUTES /\ m.num.n \in 1..59
     \/ m.unit = HOURS /\ m.num.n \in 1..23
  /\ m.tail = AGO

\* "<n>분 전" or "<n>시간 전" to the letter
ExactShape(m) ==
  AllowedShape(m) /\ m.pad = <<>> /\ m.gap1 = <<>> /\ m.gap2 = <<" ">>

\* C10 as stated: the filter accepts exactly the texts "<n>분 전", n in 1..59,
\* and "<n>시간 전", n in 1..23, and fetch_news gives a row for no other marker.
C10_ExactShapeOnly ==
  f_pc = "returned" =>
    /\ parse_relative_allowed(MarkerText(m_parts)) <=> ExactShape(m_parts)
    /\ ret # <<>> <=> ExactShape(m_parts)

\* C10 (amended): the filter accepts exactly the texts that, with white space
\* around them stripped, are a number 1..59 written without a leading zero,
\* optional white space, "분", optional white space, "전", or the same with
\* 1..23 and "시간"; fetch_news gives a row for no other marker.
C10_TimeFilter ==
  /\ parse_relative_allowed(MarkerText(m_parts)) <=> AllowedShape(m_parts)
  /\ rows # <<>> => AllowedShape(m_parts)
  /\ f_pc = "returned" => (ret # <<>> <=> AllowedShape(m_parts))

\* C10 witness: "23시간전", written without the space, gave a row
C10_Witness ==
  /\ f_pc = "returned" /\ ret # <<>>
  /\ m_parts.num.n = 23 /\ m_parts.unit = HOURS
  /\ m_parts.pad = <<>> /\ m_parts.gap1 = <<>> /\ m_parts.gap2 = <<>>

----------------------------------------------------------------------------
(* The snippet: fetch_news on a page with one card and spans after its title *)

\* the most spans after the title anchor
MaxSnippetSpans == 2

\* a title of SnippetMinLen characters or more
LongTitle == <<"L","o","n","g"," ","t","i","t","l","e"," ","1">>

ShortText == <<"s","h","o","r","t">>

LongText == <<"a"," ","l","o","n","g"," ","s","n","i","p","p","e","t">>

OtherText == <<"a","n","o","t","h","e","r"," ","l","o","n","g"," ","o","n","e">>

\* <name class="class">text</name>
Element(name, class, text) ==
  [name |-> name, class |-> class, text |-> text, target |-> "", href |-> <<>>]

\* what may follow the title anchor: spans with both snippet classes whose text
\* is short, is the title, or is long; a long span with one of the classes; a
\* long span with another class; a long div with the snippet classes
AfterTitle == {
  Element("span", SNIPPET_CLASSES, ShortText),
  Element("span", SNIPPET_CLASSES, LongTitle),
  Element("span", SNIPPET_CLASSES, LongText),
  Element("span", {"sds-comps-text-ellipsis"}, OtherText),
  Element("span", {"other"}, OtherText),
  Element("div", SNIPPET_CLASSES, OtherText)}

\* the pages: a time marker, the title anchor, and what follows it
SnippetBodies ==
  {<<TimeSpan(Recent), TitleAnchor(LongTitle, L1)>> \o es :
     es \in UNION {[1..n -> AfterTitle] : n \in 0..MaxSnippetSpans}}

NextSnippet ==
  \/ GetHtml200(SnippetBodies)
  \/ FetchParse
  \/ MarkerAccept
  \/ LoopExhausted
  \/ FetchReturn

SpecSnippet == InitFetch /\ [][NextSnippet]_vars

\* a span that carries a snippet class
HasSnippetClass(e) == e.name = "span" /\ e.class \cap SNIPPET_CLASSES # {}

\* the snippet the nearest such span after the title anchor (element 2 of the
\* page) decides: its text if it is not the title and long enough, else ""
NearestSnippet(doc) ==
  IF \E j \in 3..Len(doc) : HasSnippetClass(doc[j])
  THEN LET j == CHOOSE j \in 3..Len(doc) :
                  HasSnippetClass(doc[j]) /\ \A i \in 3..(j - 1) : ~HasSnippetClass(doc[i])
       IN  IF get_text(doc[j]) # get_text(doc[2]) /\ Len(get_text(doc[j])) >= SnippetMinLen
           THEN get_text(doc[j]) ELSE <<>>
  ELSE <<>>

\* C13 as stated: the nearest span after the title anchor that carries a
\* snippet class decides the snippet; when it fails the test the snippet is
\* empty and no later span is used.
C13_NearestSpanDecides ==
  (ReturnedFromPage /\ ret # <<>>) => ret[1].snippet = NearestSnippet(html[1])

----------------------------------------------------------------------------
(* The run_btn block: one batch run *)

\* the most queries in the sheet, and the most lines in the text area
MaxQueries == 3

\* f'"{v}" +사고' for the sheet's values, in row order
ClientNames == <<"c1", "c2", "c3", "c4">>

\* the lines of the text area, in order
CustomNames == <<"u1", "u2", "u3", "u4">>

\* "전력시장 +에너지"
MARKET_QUERY == "market"

Init ==
  /\ IdleLink
  /\ IdleFetch
  /\ session_max_retry = MAX_RETRY_DEFAULT
  /\ b_pc = "start"
  /\ client_queries \in {SubSeq(ClientNames, 1, n) : n \in 0..MaxQueries}
  /\ custom_mode \in BOOLEAN
  /\ custom_queries \in {SubSeq(CustomNames, 1, n) : n \in 0..(IF custom_mode THEN MaxQueries ELSE 0)}
  /\ include_market \in BOOLEAN
  /\ slider_n \in 1..MaxN
  /\ idx = 0
  /\ clients_rows_all = <<>>
  /\ custom_rows_all = <<>>
  /\ market_rows_all = <<>>

\* fetch_news has returned and its frame is gone
LeaveFetch ==
  /\ f_pc' = "idle" /\ query' = "" /\ max_n' = 1 /\ include_query_col' = FALSE
  /\ attempt' = 0 /\ requests' = 0 /\ sleeps' = <<>> /\ html' = <<>> /\ spans' = <<>> /\ si' = 0
  /\ seen_titles' = {} /\ seen_links' = {} /\ rows' = <<>> /\ jitters' = 0 /\ ret' = <<>>
  /\ UNCHANGED session_max_retry

\* session = make_session(); the three lists start empty; the sheet is read
StartRun ==
  /\ b_pc = "start"
  /\ session_max_retry' = MAX_RETRY_DEFAULT
  /\ clients_rows_all' = <<>>
  /\ custom_rows_all' = <<>>
  /\ market_rows_all' = <<>>
  /\ idx' = 1
  /\ b_pc' = "clients"
  /\ UNCHANGED <<linkVars, client_queries, custom_mode, custom_queries, include_market, slider_n,
                 f_pc, query, max_n, include_query_col, attempt, requests, sleeps, html, spans,
                 si, seen_titles, seen_links, rows, jitters, ret>>

\* rows = fetch_news(session, q, max_n=max_n, include_query_col=True) for a sheet query
ClientCall ==
  /\ b_pc = "clients"
  /\ f_pc = "idle"
  /\ idx <= Len(client_queries)
  /\ EnterFetch(client_queries[idx], slider_n, TRUE)
  /\ UNCHANGED <<linkVars, batchVars>>

\* clients_rows_all.extend(rows)
ClientExtend ==
  /\ b_pc = "clients"
  /\ f_pc = "returned"
  /\ clients_rows_all' = clients_rows_all \o ret
  /\ idx' = idx + 1
  /\ LeaveFetch
  /\ UNCHANGED <<linkVars, b_pc, client_queries, custom_mode, custom_queries, include_market,
                 slider_n, custom_rows_all, market_rows_all>>

\* the sheet's queries are done (or there were none)
ClientsDone ==
  /\ b_pc = "clients"
  /\ f_pc = "idle"
  /\ idx > Len(client_queries)
  /\ idx' = 1
  /\ b_pc' = "custom"
  /\ UNCHANGED <<linkVars, fetchVars, client_queries, custom_mode, custom_queries, include_market,
                 slider_n, clients_rows_all, custom_rows_all, market_rows_all>>

\* rows = fetch_news(session, q, max_n=max_n, include_query_col=True) for a typed query
CustomCall ==
  /\ b_pc = "custom"
  /\ f_pc = "idle"
  /\ custom_mode
  /\ idx <= Len(custom_queries)
  /\ EnterFetch(custom_queries[idx], slider_n, TRUE)
  /\ UNCHANGED <<linkVars, batchVars>>

\* CustomExtend that assigns the rows where the code extends the list
CustomExtend_assign ==
  /\ b_pc = "custom"
  /\ f_pc = "returned"
  /\ custom_rows_all' = ret
  /\ idx' = idx + 1
  /\ LeaveFetch
  /\ UNCHANGED <<linkVars, b_pc, client_queries, custom_mode, custom_queries, include_market,
                 slider_n, clients_rows_all, market_rows_all>>

\* custom_rows_all.extend(rows)
CustomExtend ==
  /\ b_pc = "custom"
  /\ f_pc = "returned"
  /\ custom_rows_all' = custom_rows_all \o ret
  /\ idx' = idx + 1
  /\ LeaveFetch
  /\ UNCHANGED <<linkVars, b_pc, client_queries, custom_mode, custom_queries, include_market,
                 slider_n, clients_rows_all, market_rows_all>>

\* the typed queries are done (or the mode is off, or there were none)
CustomDone ==
  /\ b_pc = "custom"
  /\ f_pc = "idle"
  /\ idx > (IF custom_mode THEN Len(custom_queries) ELSE 0)
  /\ b_pc' = "market"
  /\ UNCHANGED <<linkVars, fetchVars, client_queries, custom_mode, custom_queries, include_market,
                 slider_n, idx, clients_rows_all, custom_rows_all, market_rows_all>>

\* fetch_news(session, "전력시장 +에너지", max_n=max_n, include_query_col=False)
MarketCall ==
  /\ b_pc = "market"
  /\ f_pc = "idle"
  /\ include_market
  /\ EnterFetch(MARKET_QUERY, slider_n, FALSE)
  /\ UNCHANGED <<linkVars, batchVars>>

\* market_rows_all = the rows returned; the tables and the workbook are made from the lists
MarketAssign ==
  /\ b_pc = "market"
  /\ f_pc = "returned"
  /\ market_rows_all' = ret
  /\ b_pc' = "done"
  /\ LeaveFetch
  /\ UNCHANGED <<linkVars, client_queries, custom_mode, custom_queries, include_market,
                 slider_n, idx, clients_rows_all, custom_rows_all>>

\* include_market is off: the tables and the workbook are made from the lists
MarketSkip ==
  /\ b_pc = "market"
  /\ f_pc = "idle"
  /\ ~include_market
  /\ b_pc' = "done"
  /\ UNCHANGED <<linkVars, fetchVars, client_queries, custom_mode, custom_queries, include_market,
                 slider_n, idx, clients_rows_all, custom_rows_all, market_rows_all>>

Next ==
  \/ StartRun
  \/ ClientCall
  \/ ClientExtend
  \/ ClientsDone
  \/ CustomCall
  \/ CustomExtend
  \/ CustomDone
  \/ MarketCall
  \/ MarketAssign
  \/ MarketSkip
  \/ GetHtml200(BatchBodies)
  \/ GetHtmlNon200
  \/ GetHtmlError
  \/ GetHtmlBackoff
  \/ GetHtmlExhausted
  \/ FetchNoHtml
  \/ FetchParse
  \/ LoopExhausted
  \/ LoopBreak
  \/ MarkerFiltered
  \/ MarkerNoCard
  \/ MarkerDuplicate
  \/ MarkerAccept
  \/ FetchReturn

Spec == Init /\ [][Next]_vars

\* a fetch_news call is running or has just returned
InFetch == f_pc # "idle"

\* C6: a fetch that got no page returns [] without raising; whatever a call
\* returns, the loop adds it to its own list, leaves the other lists alone and
\* goes on to the next query; the queries of a list are fetched one by one in
\* input order and the loop ends only after the last one.
C6Step ==
  /\ (f_pc = "got_html" /\ NoHtml) => (f_pc' = "returned" /\ ret' = <<>>)
  /\ (f_pc = "returned" /\ b_pc = "clients") =>
       /\ clients_rows_all' = clients_rows_all \o ret
       /\ custom_rows_all' = custom_rows_all /\ market_rows_all' = market_rows_all
       /\ idx' = idx + 1 /\ b_pc' = "clients" /\ ~InFetch'
  /\ (f_pc = "returned" /\ b_pc = "custom") =>
       /\ custom_rows_all' = custom_rows_all \o ret
       /\ clients_rows_all' = clients_rows_all /\ market_rows_all' = market_rows_all
       /\ idx' = idx + 1 /\ b_pc' = "custom" /\ ~InFetch'
  /\ (f_pc = "returned" /\ b_pc = "market") =>
       /\ market_rows_all' = ret
       /\ clients_rows_all' = clients_rows_all /\ custom_rows_all' = custom_rows_all
  /\ (~InFetch /\ InFetch' /\ b_pc = "clients") =>
       (idx <= Len(client_queries) /\ query' = client_queries[idx])
  /\ (~InFetch /\ InFetch' /\ b_pc = "custom") =>
       (idx <= Len(custom_queries) /\ query' = custom_queries[idx])
  /\ (b_pc = "clients" /\ b_pc' # "clients") => (~InFetch /\ idx = Len(client_queries) + 1)
  /\ (b_pc = "custom" /\ b_pc' # "custom") => (~InFetch /\ idx = Len(custom_queries) + 1)

\* C6: every step of a batch run keeps what earlier queries gave and goes on
C6_FailedFetchGoesOn == [][C6Step]_vars

\* C6 witness: a typed query failed after all retries, earlier queries gave
\* rows, and another query is still to come
C6_Witness ==
  /\ b_pc = "custom" /\ f_pc = "returned" /\ html = <<>>
  /\ clients_rows_all # <<>> /\ custom_rows_all # <<>>
  /\ idx < Len(custom_queries)

\* the normalized titles, and the non-empty normalized links, of a list of rows
TitleKeys(rs) == {normalize_title(rs[i].title) : i \in 1..Len(rs)}

LinkKeys(rs) == {normalize_link(rs[i].link) : i \in 1..Len(rs)} \ {<<>>}

\* C11: in every call of a batch run the dedup sets hold the keys of the rows
\* of this call and nothing else (they are empty when the loop starts), and
\* what a call returns for a page is what the acceptance rule keeps of that
\* page alone, whatever earlier queries returned.
C11_SetsPerCall ==
  /\ f_pc \in {"loop", "jitter"} =>
       (seen_titles = TitleKeys(rows) /\ seen_links = LinkKeys(rows))
  /\ ReturnedFromPage =>
       LET kept == KeptFrom(DocCards(html[1]), 1, <<>>)
       IN  ret = [i \in 1..Min(max_n, Len(kept)) |-> MakeRow(kept[i], query, include_query_col)]

\* C11 witness: a later query returns the article an earlier query already gave
C11_Witness ==
  /\ b_pc = "custom" /\ f_pc = "returned" /\ ret # <<>>
  /\ clients_rows_all # <<>> /\ custom_rows_all # <<>>
  /\ TitleKeys(ret) \subseteq (TitleKeys(clients_rows_all) \cap TitleKeys(custom_rows_all))

====
